---- MODULE Spec2Model ----
(***************************************************************************)
(* Multi-agent phishing e-mail detection: the agent base class             *)
(* (agents/base_agent.py), the text and URL agents (agents/text_agent_v2,  *)
(* agents/url_agent_v2) and the orchestrator with its merge algorithm      *)
(* (agents/unified_analyzer.py).                                           *)
(*                                                                         *)
(* Numbers.  Confidences are held in hundredths (0.9 is 90), verdict       *)
(* scores and weights in tenths (1.0 is 10, 0.6 is 6), so                  *)
(*   combined_score      is held in 1/10000 (0.36 is 3600)                 *)
(*   combined_confidence is held in 1/1000  (0.84 is 840)                  *)
(* and all arithmetic is exact.  On every pair of confidences of           *)
(* ConfidenceGrid the IEEE double evaluation of the Python expressions     *)
(* gives the same verdict and the same rounded confidence as the exact     *)
(* evaluation (checked by running the Python expressions on the grid).     *)
(***************************************************************************)
EXTENDS Integers, Sequences, FiniteSets, TLC

\* ------------------------------------------------------------------ bounds
MaxUrls == 2        \* longest URL list of a request
MaxTags == 2        \* longest indicator list the backend reports
MaxDetails == 1     \* longest url_details list the backend reports
MaxRawLen == 4      \* longest raw backend text taken character by character
MaxProse == 1       \* longest prose before and after an embedded object
MaxMembers == 2     \* most members of an embedded object

\* --------------------------------------------------------------- constants
ScoreUnit == 10000  \* combined_score 1.0
ConfUnit == 1000    \* combined_confidence 1.0
TextWeight == 6     \* 0.6
UrlWeight == 4      \* 0.4
PhishingThreshold == 7000    \* combined_score >= 0.7
LegitimateThreshold == 3000  \* combined_score <= 0.3
DefaultScore == 5            \* verdict_scores.get(..., 0.5)
DefaultConfidence == 50      \* .get("confidence", 0.5)

VARIABLES
    pc,             \* position of the running call
    entry,          \* entry point of the running call
    urls,           \* the urls argument, after "if urls is None: urls = []"
    text_result,    \* analyze_email's local text_result (the live dict object)
    url_result,     \* analyze_email's local url_result (None when not run)
    locals,         \* _merge_results' locals combined_score, combined_confidence
    unified,        \* the dict _merge_results returns
    error,          \* the exception that left the call, "" when none
    requests,       \* requests.post calls made so far, in order
    returned,       \* what each agent's analyze returned, as returned
    replies,        \* how each requests.post round trip ended, in order
    backend,        \* "up", or "silent" once it will never answer
    set_order,      \* this process's iteration order of each set of strings
    unified_again,  \* the dict a second _merge_results call returns
    yielded,        \* each returned dict's content at the moment of return
    raw,            \* _extract_json's argument
    extracted,      \* _extract_json's outcome
    original        \* the object that was serialized into raw, if any

vars == <<pc, entry, urls, text_result, url_result, locals, unified, error,
          requests, returned, replies, backend, set_order, unified_again,
          yielded, raw, extracted, original>>

\* ------------------------------------------------------------ Python values
None == [isNone |-> TRUE]
EmptyDict == [k \in {} |-> 0]

\* dict.get(k, default)
Get(d, k, default) == IF k \in DOMAIN d THEN d[k] ELSE default

\* truth value of an Optional[dict]: None and {} are false
Truthy(d) == d # None /\ DOMAIN d # {}

Verdicts == {"phishing", "legitimate", "unsure"}

\* ------------------------------------------------- inputs: what a backend says
\* confidences on which double and exact arithmetic agree (hundredths)
ConfidenceGrid == {0, 30, 50, 70, 80, 90, 96, 100}
\* confidences outside [0,1]
BadConfidences == {150, -20}
\* a verdict value outside the enum
BadVerdicts == {"spam"}

Tags == {"credential_harvesting", "url_shortener"}

RECURSIVE SeqsUpTo(_, _)
SeqsUpTo(S, n) ==
    IF n = 0 THEN {<<>>}
    ELSE LET shorter == SeqsUpTo(S, n - 1)
         IN  shorter \cup {Append(s, x) : s \in shorter, x \in S}

TagLists == SeqsUpTo(Tags, MaxTags)

VerdictFields == {EmptyDict} \cup {[verdict |-> v] : v \in Verdicts \cup BadVerdicts}
ConfidenceFields ==
    {EmptyDict} \cup {[confidence |-> c] : c \in ConfidenceGrid \cup BadConfidences}
IndicatorFields == {EmptyDict} \cup {[phishing_indicators |-> l] : l \in TagLists}
Details == {[url |-> "u1"]} \cup {[url |-> "u1", indicators |-> l] : l \in TagLists}
DetailFields == {EmptyDict} \cup {[url_details |-> ds] : ds \in SeqsUpTo(Details, MaxDetails)}

\* a well-formed verdict and confidence, and none at all, to carry the lists
Bases == {[verdict |-> "phishing", confidence |-> 90], EmptyDict}

\* JSON objects the backend can answer the text agent's prompt with
TextObjects ==
    {v @@ c : v \in VerdictFields, c \in ConfidenceFields}
    \cup {b @@ i : b \in Bases, i \in IndicatorFields}
    \cup {[verdict |-> "phishing", confidence |-> 90,
           phishing_indicators |-> <<"credential_harvesting">>,
           legitimacy_indicators |-> <<"professional_tone_and_language">>,
           overall_rationale |-> "asks for a password",
           safety_notes |-> "do not click"]}

\* JSON objects the backend can answer the URL agent's prompt with
UrlObjects ==
    {v @@ c : v \in VerdictFields, c \in ConfidenceFields}
    \cup {b @@ d : b \in Bases, d \in DetailFields}
    \cup {[verdict |-> "unsure", confidence |-> 50, urls_analyzed |-> 0,
           overall_rationale |-> "no URLs"]}

\* the ways one requests.post round trip can end: requests.post raises,
\* raise_for_status raises, the content is a text on which _extract_json
\* raises ValueError (no_json) or json.loads raises (bad_json), or the content
\* holds a JSON object
ReplyKinds == {"ConnectionError", "HTTPError", "no_json", "bad_json", "json"}
Replies(objects) ==
    {[kind |-> k, obj |-> EmptyDict] : k \in ReplyKinds \ {"json"}}
    \cup {[kind |-> "json", obj |-> o] : o \in objects}

UrlLists == SeqsUpTo({"u1"}, MaxUrls)

\* exception classes by the failure they stand for
BackendUnavailable == {"ConnectionError", "HTTPError"}
MalformedOutput == {"ValueError", "JSONDecodeError"}

\* ---------------------------------------------------------------- helpers
Range(s) == {s[i] : i \in DOMAIN s}

RECURSIVE Concat(_)
\* the lists of a list of lists, one after the other
Concat(ls) == IF ls = <<>> THEN <<>> ELSE Head(ls) \o Concat(Tail(ls))

\* every order in which the elements of S can be listed
Orders(S) == {s \in [1..Cardinality(S) -> S] : Range(s) = S}

RECURSIVE Dedup(_)
\* the elements of l in order of first occurrence: the order in which
\* set(l) inserts them
Dedup(l) ==
    IF l = <<>> THEN <<>>
    ELSE LET front == Dedup(SubSeq(l, 1, Len(l) - 1))
             last == l[Len(l)]
         IN  IF last \in Range(front) THEN front ELSE Append(front, last)

\* the lists set() can be built from, up to repetitions
DistinctLists == {l \in SeqsUpTo(Tags, Cardinality(Tags)) : Dedup(l) = l}

\* the iteration orders a process can have: string hashes are seeded per
\* process, so the order of a set is fixed by the process and by the order
\* in which its elements were inserted
SetOrders == {f \in [DistinctLists -> DistinctLists] : \A l \in DistinctLists : Range(f[l]) = Range(l)}

\* round(x, 2) of x held in 1/1000, result in hundredths (ties to even)
Round2(x) ==
    LET q == x \div 10
        r == x % 10
    IN  IF r > 5 \/ (r = 5 /\ q % 2 = 1) THEN q + 1 ELSE q

\* ------------------------------------------------------------ the two agents
text_prepare_input(subject, body) == <<"Subject: ", subject, "\n\nBody:\n", body>>

\* an empty list joined like any other, without the marker
url_prepare_input_joined(us) == <<"URLs to analyze:\n">> \o us

url_prepare_input(us) ==
    <<"URLs to analyze:\n">> \o (IF us # <<>> THEN us ELSE <<"(no URLs provided)">>)

\* the payload call_llm posts to /api/chat
Payload(agent, user_message) ==
    [agent |-> agent, system |-> agent, user |-> user_message, stream |-> FALSE]

\* call_llm once the round trip has ended with reply: the exception it raises
\* ("" when none) and the dict it returns
call_llm(reply) ==
    CASE reply.kind = "ConnectionError" -> [exc |-> "ConnectionError", value |-> EmptyDict]
      [] reply.kind = "HTTPError" -> [exc |-> "HTTPError", value |-> EmptyDict]
      [] reply.kind = "no_json" -> [exc |-> "ValueError", value |-> EmptyDict]
      [] reply.kind = "bad_json" -> [exc |-> "JSONDecodeError", value |-> EmptyDict]
      [] OTHER -> [exc |-> "", value |-> reply.obj]

\* ------------------------------------------------------------------- merge
verdict_scores == [phishing |-> 10, unsure |-> 5, legitimate |-> 0]

\* verdict_scores.get(result.get("verdict", "unsure"), 0.5)
score_of(result) == Get(verdict_scores, Get(result, "verdict", "unsure"), DefaultScore)

\* result.get("confidence", 0.5)
confidence_of(result) == Get(result, "confidence", DefaultConfidence)

\* the weights the other way round
combined_score_swapped(tr, ur) ==
    IF Truthy(ur)
    THEN (score_of(tr) * UrlWeight * confidence_of(tr))
         + (score_of(ur) * TextWeight * confidence_of(ur))
    ELSE score_of(tr) * confidence_of(tr) * 10

combined_score(tr, ur) ==
    IF Truthy(ur)
    THEN (score_of(tr) * TextWeight * confidence_of(tr))
         + (score_of(ur) * UrlWeight * confidence_of(ur))
    ELSE score_of(tr) * confidence_of(tr) * 10

\* the text weight applied without a URL result as well
combined_confidence_weighted(tr, ur) ==
    IF Truthy(ur)
    THEN (confidence_of(tr) * TextWeight) + (confidence_of(ur) * UrlWeight)
    ELSE confidence_of(tr) * TextWeight

combined_confidence(tr, ur) ==
    IF Truthy(ur)
    THEN (confidence_of(tr) * TextWeight) + (confidence_of(ur) * UrlWeight)
    ELSE confidence_of(tr) * 10

urls_analyzed(ur) == Truthy(ur)

\* the thresholds applied to the score rounded to two decimals
final_verdict_rounded(score) ==
    LET rounded == ((score + 50) \div 100) * 100
    IN  IF rounded >= PhishingThreshold THEN "phishing"
        ELSE IF rounded <= LegitimateThreshold THEN "legitimate"
        ELSE "unsure"

final_verdict(score) ==
    IF score >= PhishingThreshold THEN "phishing"
    ELSE IF score <= LegitimateThreshold THEN "legitimate"
    ELSE "unsure"

\* the indicator lists of the URL result's url_details, in order
url_indicators(ur) ==
    LET details == Get(ur, "url_details", <<>>)
    IN  [i \in 1..Len(details) |-> Get(details[i], "indicators", <<>>)]

\* the URL indicators left out
all_phishing_indicators_text_only(tr, ur) == Get(tr, "phishing_indicators", <<>>)

\* all_phishing_indicators after the extend loop
all_phishing_indicators(tr, ur) ==
    Get(tr, "phishing_indicators", <<>>)
    \o (IF Truthy(ur) THEN Concat(url_indicators(ur)) ELSE <<>>)

\* the text result object after the extend loop: the list it holds under
\* "phishing_indicators" is the very list the loop extends
text_result_after(tr, ur) ==
    IF "phishing_indicators" \in DOMAIN tr
    THEN [tr EXCEPT !["phishing_indicators"] = all_phishing_indicators(tr, ur)]
    ELSE tr

_build_rationale(verdict, tr, ur) ==
    IF Truthy(ur)
    THEN <<"Text analysis: ", Get(tr, "overall_rationale", ""),
           "\n\nURL analysis: ", Get(ur, "overall_rationale", "")>>
    ELSE <<"Based on text analysis: ", Get(tr, "overall_rationale", "")>>

\* the dict _merge_results returns; order is list(set(all_phishing_indicators))
_merge_results(tr, ur, order) ==
    [task |-> "email_phishing_detection",
     verdict |-> final_verdict(combined_score(tr, ur)),
     confidence |-> Round2(combined_confidence(tr, ur)),
     phishing_indicators |-> order,
     legitimacy_indicators |-> Get(tr, "legitimacy_indicators", <<>>),
     agents_used |-> [text |-> TRUE, url |-> urls_analyzed(ur)],
     text_agent_result |-> text_result_after(tr, ur),
     url_agent_result |-> ur,
     overall_rationale |-> _build_rationale(final_verdict(combined_score(tr, ur)), tr, ur),
     safety_notes |-> Get(tr, "safety_notes", "")]

\* ------------------------------------------------- the result extractor
\* Raw backend text is a sequence of characters.  The JSON read and written
\* here is the part of JSON these characters can spell: objects, strings
\* without escapes, and numbers written with the digit 1, with blanks
\* allowed between tokens.
Chars == {"{", "}", "\"", ":", ",", " ", "1", "a"}

\* JSON values: t is "num", "str" or "obj"; s the digits or the characters of
\* the string; m the members of the object, in insertion order, keys distinct
Num(digits) == [t |-> "num", s |-> digits, m |-> <<>>]
Str(chars) == [t |-> "str", s |-> chars, m |-> <<>>]
Obj(members) == [t |-> "obj", s |-> <<>>, m |-> members]

\* d[k] = v on an insertion-ordered dict
SetItem(members, k, v) ==
    IF \E i \in DOMAIN members : members[i].k = k
    THEN [i \in DOMAIN members |->
             IF members[i].k = k THEN [k |-> k, v |-> v] ELSE members[i]]
    ELSE Append(members, [k |-> k, v |-> v])

RECURSIVE PyEq(_, _)
\* Python's == on parsed values: dicts compare without regard to order
PyEq(a, b) ==
    /\ a.t = b.t
    /\ a.s = b.s
    /\ Len(a.m) = Len(b.m)
    /\ \A i \in DOMAIN a.m :
           \E j \in DOMAIN b.m : b.m[j].k = a.m[i].k /\ PyEq(a.m[i].v, b.m[j].v)

\* str.find(c): index from 0 of the first c, -1 when there is none
find(s, c) ==
    IF \E i \in DOMAIN s : s[i] = c
    THEN (CHOOSE i \in DOMAIN s : s[i] = c /\ \A j \in 1..(i - 1) : s[j] # c) - 1
    ELSE -1

\* the first occurrence instead of the last
rfind_first(s, c) == find(s, c)
\* str.rfind(c): index from 0 of the last c, -1 when there is none
rfind(s, c) ==
    IF \E i \in DOMAIN s : s[i] = c
    THEN (CHOOSE i \in DOMAIN s : s[i] = c /\ \A j \in (i + 1)..Len(s) : s[j] # c) - 1
    ELSE -1

\* s[start:end] for 0 <= start, 0 <= end
Slice(s, start, end) == SubSeq(s, start + 1, end)

RECURSIVE Join(_, _)
\* sep.join(parts)
Join(parts, sep) ==
    IF parts = <<>> THEN <<>>
    ELSE IF Len(parts) = 1 THEN parts[1]
    ELSE parts[1] \o sep \o Join(Tail(parts), sep)

RECURSIVE dumps(_)
\* json.dumps(v), with its default separators ", " and ": "
dumps(v) ==
    IF v.t = "num" THEN v.s
    ELSE IF v.t = "str" THEN <<"\"">> \o v.s \o <<"\"">>
    ELSE <<"{">>
         \o Join([i \in DOMAIN v.m |->
                     <<"\"">> \o v.m[i].k \o <<"\"", ":", " ">> \o dumps(v.m[i].v)],
                 <<",", " ">>)
         \o <<"}">>

\* the decoder's position results: ok, the value, the index after it
ParseFail == [ok |-> FALSE, v |-> Num(<<>>), i |-> 0]
Parsed(v, i) == [ok |-> TRUE, v |-> v, i |-> i]

RECURSIVE SkipWs(_, _)
SkipWs(s, i) == IF i <= Len(s) /\ s[i] = " " THEN SkipWs(s, i + 1) ELSE i

RECURSIVE EndOfRun(_, _, _)
\* the first index from i on that does not hold a character of S
EndOfRun(s, i, S) == IF i <= Len(s) /\ s[i] \in S THEN EndOfRun(s, i + 1, S) ELSE i

\* s[i] is the opening quote
ParseString(s, i) ==
    LET j == EndOfRun(s, i + 1, Chars \ {"\""})
    IN  IF j <= Len(s) THEN Parsed(Str(SubSeq(s, i + 1, j - 1)), j + 1) ELSE ParseFail

\* s[i] is a digit
ParseNumber(s, i) ==
    LET j == EndOfRun(s, i, {"1"})
    IN  Parsed(Num(SubSeq(s, i, j - 1)), j)

RECURSIVE ParseValue(_, _)
RECURSIVE ParseMembers(_, _, _)

\* the members of an object from the key at s[i] on, up to the closing brace
ParseMembers(s, i, acc) ==
    IF i > Len(s) \/ s[i] # "\"" THEN ParseFail
    ELSE LET key == ParseString(s, i)
             colon == SkipWs(s, key.i)
         IN  IF ~key.ok \/ colon > Len(s) \/ s[colon] # ":" THEN ParseFail
             ELSE LET val == ParseValue(s, SkipWs(s, colon + 1))
                      sep == SkipWs(s, val.i)
                      members == SetItem(acc, key.v.s, val.v)
                  IN  IF ~val.ok \/ sep > Len(s) THEN ParseFail
                      ELSE IF s[sep] = "}" THEN Parsed(Obj(members), sep + 1)
                      ELSE IF s[sep] = "," THEN ParseMembers(s, SkipWs(s, sep + 1), members)
                      ELSE ParseFail

\* the value that starts at s[i]
ParseValue(s, i) ==
    IF i > Len(s) THEN ParseFail
    ELSE IF s[i] = "\"" THEN ParseString(s, i)
    ELSE IF s[i] = "1" THEN ParseNumber(s, i)
    ELSE IF s[i] = "{"
         THEN LET j == SkipWs(s, i + 1)
              IN  IF j <= Len(s) /\ s[j] = "}" THEN Parsed(Obj(<<>>), j + 1)
                  ELSE ParseMembers(s, j, <<>>)
    ELSE ParseFail

\* json.loads(s): one value, blanks around it, and nothing after it
loads(s) ==
    LET r == ParseValue(s, SkipWs(s, 1))
    IN  IF r.ok /\ SkipWs(s, r.i) > Len(s) THEN r ELSE ParseFail

\* what a call of _extract_json ends with: the exception raised ("" when it
\* returns), the text the exception carries (JSONDecodeError.doc), the value
NoOutcome == [exc |-> "", doc |-> <<>>, value |-> None]

\* the test that the closing brace comes after the opening one left out
_extract_json_unordered(r) ==
    LET start == find(r, "{")
        end == rfind(r, "}")
        json_str == Slice(r, start, end + 1)
        parsed == loads(json_str)
    IN  IF start = -1 \/ end = -1
        THEN [exc |-> "ValueError", doc |-> <<>>, value |-> None]
        ELSE IF parsed.ok
             THEN [exc |-> "", doc |-> <<>>, value |-> parsed.v]
             ELSE [exc |-> "JSONDecodeError", doc |-> json_str, value |-> None]

\* BaseAgent._extract_json(raw)
_extract_json(r) ==
    LET start == find(r, "{")
        end == rfind(r, "}")
        json_str == Slice(r, start, end + 1)
        parsed == loads(json_str)
    IN  IF start = -1 \/ end = -1 \/ end <= start
        THEN [exc |-> "ValueError", doc |-> <<>>, value |-> None]
        ELSE IF parsed.ok
             THEN [exc |-> "", doc |-> <<>>, value |-> parsed.v]
             ELSE [exc |-> "JSONDecodeError", doc |-> json_str, value |-> None]

\* ------------------------------------------------------- the orchestrator
Subject == "Important: Verify your account immediately"
Body == "Please click the link below to verify your account."

NoLocals == [combined_score |-> 0, combined_confidence |-> 0, urls_analyzed |-> FALSE]
Init ==
    /\ pc = "idle"
    /\ entry = ""
    /\ urls = <<>>
    /\ text_result = None
    /\ url_result = None
    /\ locals = NoLocals
    /\ unified = None
    /\ error = ""
    /\ requests = <<>>
    /\ returned = [text |-> None, url |-> None]
    /\ replies = <<>>
    /\ backend = "up"
    /\ set_order \in SetOrders
    /\ unified_again = None
    /\ yielded = <<>>
    /\ raw = <<>>
    /\ extracted = NoOutcome
    /\ original = None

extractor_vars == <<raw, extracted, original>>
merge_vars == <<set_order, unified_again, yielded>>

\* analyze_email(subject, body, urls) is entered; given = FALSE is urls=None
analyze_email ==
    /\ pc = "idle"
    /\ pc' = "text_agent"
    /\ entry' = "analyze_email"
    /\ \E given \in BOOLEAN, us \in UrlLists : urls' = IF given THEN us ELSE <<>>
    /\ UNCHANGED <<text_result, url_result, locals, unified, error, requests,
                   returned, replies, backend, merge_vars, extractor_vars>>

\* run_url_agent(urls) / URLAgent.analyze(urls) is entered on its own
run_url_agent ==
    /\ pc = "idle"
    /\ pc' = "url_agent"
    /\ entry' = "run_url_agent"
    /\ \E given \in BOOLEAN, us \in UrlLists : urls' = IF given THEN us ELSE <<>>
    /\ UNCHANGED <<text_result, url_result, locals, unified, error, requests,
                   returned, replies, backend, merge_vars, extractor_vars>>

\* TextAgent.analyze up to the point where requests.post has sent the payload
text_agent_post ==
    /\ pc = "text_agent"
    /\ requests' = Append(requests, Payload("text", text_prepare_input(Subject, Body)))
    /\ pc' = "text_wait"
    /\ UNCHANGED <<entry, urls, text_result, url_result, locals, unified, error,
                   returned, replies, backend, merge_vars, extractor_vars>>

\* requests.post is called without a timeout: a backend that accepts the
\* request and then says nothing leaves the call waiting
backend_silent ==
    /\ pc \in {"text_wait", "url_wait"}
    /\ backend = "up"
    /\ backend' = "silent"
    /\ UNCHANGED <<pc, entry, urls, text_result, url_result, locals, unified, error,
                   requests, returned, replies, merge_vars, extractor_vars>>

\* a text failure replaced by an empty result, the analysis carrying on
text_agent_reply_fallback ==
    /\ pc = "text_wait"
    /\ backend = "up"
    /\ \E reply \in Replies(TextObjects) :
       LET r == call_llm(reply)
       IN  /\ replies' = Append(replies, reply)
           /\ IF r.exc # ""
              THEN /\ text_result' = EmptyDict
                   /\ pc' = IF urls # <<>> THEN "url_agent" ELSE "merge"
                   /\ UNCHANGED <<error, returned>>
              ELSE /\ text_result' = r.value
                   /\ returned' = [returned EXCEPT !.text = r.value]
                   /\ pc' = IF urls # <<>> THEN "url_agent" ELSE "merge"
                   /\ UNCHANGED error
    /\ UNCHANGED <<entry, urls, url_result, locals, unified, requests, backend,
                   merge_vars, extractor_vars>>

\* a text failure followed by a second request
text_agent_reply_retry ==
    /\ pc = "text_wait"
    /\ backend = "up"
    /\ \E reply \in Replies(TextObjects) :
       LET r == call_llm(reply)
       IN  /\ replies' = Append(replies, reply)
           /\ IF r.exc # ""
              THEN /\ pc' = "text_agent"
                   /\ UNCHANGED <<error, text_result, returned>>
              ELSE /\ text_result' = r.value
                   /\ returned' = [returned EXCEPT !.text = r.value]
                   /\ pc' = IF urls # <<>> THEN "url_agent" ELSE "merge"
                   /\ UNCHANGED error
    /\ UNCHANGED <<entry, urls, url_result, locals, unified, requests, backend,
                   merge_vars, extractor_vars>>

\* a text failure kept aside until the URL agent has run as well
text_agent_reply_deferred ==
    /\ pc = "text_wait"
    /\ backend = "up"
    /\ \E reply \in Replies(TextObjects) :
       LET r == call_llm(reply)
       IN  /\ replies' = Append(replies, reply)
           /\ IF r.exc # ""
              THEN /\ error' = r.exc
                   /\ pc' = IF urls # <<>> THEN "url_agent" ELSE "raised"
                   /\ UNCHANGED <<text_result, returned>>
              ELSE /\ text_result' = r.value
                   /\ returned' = [returned EXCEPT !.text = r.value]
                   /\ pc' = IF urls # <<>> THEN "url_agent" ELSE "merge"
                   /\ UNCHANGED error
    /\ UNCHANGED <<entry, urls, url_result, locals, unified, requests, backend,
                   merge_vars, extractor_vars>>

\* the round trip ends and TextAgent.analyze returns or raises
text_agent_reply ==
    /\ pc = "text_wait"
    /\ backend = "up"
    /\ \E reply \in Replies(TextObjects) :
       LET r == call_llm(reply)
       IN  /\ replies' = Append(replies, reply)
           /\ IF r.exc # ""
              THEN /\ error' = r.exc
                   /\ pc' = "raised"
                   /\ UNCHANGED <<text_result, returned>>
              ELSE /\ text_result' = r.value
                   /\ returned' = [returned EXCEPT !.text = r.value]
                   /\ pc' = IF urls # <<>> THEN "url_agent" ELSE "merge"
                   /\ UNCHANGED error
    /\ UNCHANGED <<entry, urls, url_result, locals, unified, requests, backend,
                   merge_vars, extractor_vars>>

\* the URL request sent while the text request is still out
url_agent_post_early ==
    /\ pc \in {"url_agent", "text_wait"}
    /\ requests' = Append(requests, Payload("url", url_prepare_input(urls)))
    /\ pc' = "url_wait"
    /\ UNCHANGED <<entry, urls, text_result, url_result, locals, unified, error,
                   returned, replies, backend, merge_vars, extractor_vars>>

\* URLAgent.analyze up to the point where requests.post has sent the payload
url_agent_post ==
    /\ pc = "url_agent"
    /\ requests' = Append(requests, Payload("url", url_prepare_input(urls)))
    /\ pc' = "url_wait"
    /\ UNCHANGED <<entry, urls, text_result, url_result, locals, unified, error,
                   returned, replies, backend, merge_vars, extractor_vars>>

\* a URL failure caught, the analysis carrying on with the text result alone
url_agent_reply_tolerant ==
    /\ pc = "url_wait"
    /\ backend = "up"
    /\ \E reply \in Replies(UrlObjects) :
       LET r == call_llm(reply)
       IN  /\ replies' = Append(replies, reply)
           /\ IF r.exc # ""
              THEN /\ url_result' = None
                   /\ pc' = IF entry = "analyze_email" THEN "merge" ELSE "returned"
                   /\ UNCHANGED <<error, returned>>
              ELSE /\ url_result' = r.value
                   /\ returned' = [returned EXCEPT !.url = r.value]
                   /\ pc' = IF entry = "analyze_email" THEN "merge" ELSE "returned"
                   /\ UNCHANGED error
    /\ UNCHANGED <<entry, urls, text_result, locals, unified, requests, backend,
                   merge_vars, extractor_vars>>

\* the round trip ends and URLAgent.analyze returns or raises
url_agent_reply ==
    /\ pc = "url_wait"
    /\ backend = "up"
    /\ \E reply \in Replies(UrlObjects) :
       LET r == call_llm(reply)
       IN  /\ replies' = Append(replies, reply)
           /\ IF r.exc # ""
              THEN /\ error' = r.exc
                   /\ pc' = "raised"
                   /\ UNCHANGED <<url_result, returned>>
              ELSE /\ url_result' = r.value
                   /\ returned' = [returned EXCEPT !.url = r.value]
                   /\ pc' = IF entry = "analyze_email" THEN "merge" ELSE "returned"
                   /\ UNCHANGED error
    /\ UNCHANGED <<entry, urls, text_result, locals, unified, requests, backend,
                   merge_vars, extractor_vars>>

\* list(set(all_phishing_indicators)) in this process
set_list(l) == set_order[Dedup(l)]

\* self._merge_results(text_result, url_result), then return merged
merge_results ==
    /\ pc = "merge"
    /\ unified' = _merge_results(text_result, url_result,
                                 set_list(all_phishing_indicators(text_result, url_result)))
    /\ yielded' = Append(yielded, unified')
    /\ text_result' = text_result_after(text_result, url_result)
    /\ locals' = [combined_score |-> combined_score(text_result, url_result),
                  combined_confidence |-> combined_confidence(text_result, url_result),
                  urls_analyzed |-> urls_analyzed(url_result)]
    /\ pc' = "returned"
    /\ UNCHANGED <<entry, urls, url_result, error, requests, returned, replies,
                   backend, set_order, unified_again, extractor_vars>>

\* _merge_results called a second time on the same two objects.  The dict
\* returned first holds the text result object itself under
\* "text_agent_result", so it shows what this call does to that object.
merge_results_again ==
    /\ pc = "returned"
    /\ entry = "analyze_email"
    /\ unified_again' = _merge_results(text_result, url_result,
                                       set_list(all_phishing_indicators(text_result, url_result)))
    /\ yielded' = Append(yielded, unified_again')
    /\ text_result' = text_result_after(text_result, url_result)
    /\ unified' = [unified EXCEPT !.text_agent_result = text_result']
    /\ locals' = [combined_score |-> combined_score(text_result, url_result),
                  combined_confidence |-> combined_confidence(text_result, url_result),
                  urls_analyzed |-> urls_analyzed(url_result)]
    /\ pc' = "returned_again"
    /\ UNCHANGED <<entry, urls, url_result, error, requests, returned, replies,
                   backend, set_order, extractor_vars>>

Next ==
    \/ analyze_email
    \/ run_url_agent
    \/ text_agent_post
    \/ text_agent_reply
    \/ url_agent_post
    \/ url_agent_reply
    \/ backend_silent
    \/ merge_results
    \/ merge_results_again

Spec == Init /\ [][Next]_vars

\* every step of the program is taken when it can be, and a backend that is
\* up answers; nothing ends a wait on a silent backend
SpecLive ==
    /\ Init
    /\ [][Next]_vars
    /\ WF_vars(analyze_email)
    /\ WF_vars(text_agent_post)
    /\ WF_vars(text_agent_reply)
    /\ WF_vars(url_agent_post)
    /\ WF_vars(url_agent_reply)
    /\ WF_vars(merge_results)

\* ------------------------------------------ the extractor on its own
\* every raw text of up to MaxRawLen characters
RawTexts == SeqsUpTo(Chars, MaxRawLen)

\* prose without brace characters
Prose == SeqsUpTo({"a", "\""}, MaxProse)

\* objects to serialize: keys and strings may hold brace characters
Keys == {<<"a">>, <<"}">>}
Leaves == {Num(<<"1">>), Str(<<>>), Str(<<"{">>)}
MemberLists(values) ==
    {ms \in SeqsUpTo({[k |-> k, v |-> v] : k \in Keys, v \in values}, MaxMembers) :
        \A i, j \in DOMAIN ms : i # j => ms[i].k # ms[j].k}
Nested == {Obj(<<>>)} \cup {Obj(<<[k |-> k, v |-> v]>>) : k \in Keys, v \in Leaves}
Objects == {Obj(ms) : ms \in MemberLists(Leaves \cup Nested)}

main_vars == <<entry, urls, text_result, url_result, locals, unified, error,
               requests, returned, replies, backend, merge_vars>>

\* call_llm reads data["message"]["content"]: any text
content_arrives ==
    /\ pc = "idle"
    /\ \E r \in RawTexts : raw' = r
    /\ original' = None
    /\ pc' = "content"
    /\ UNCHANGED <<extracted, main_vars>>

\* the backend serializes an object and wraps it in prose
content_embeds ==
    /\ pc = "idle"
    /\ \E obj \in Objects, prefix \in Prose, suffix \in Prose :
           /\ raw' = prefix \o dumps(obj) \o suffix
           /\ original' = obj
    /\ pc' = "content"
    /\ UNCHANGED <<extracted, main_vars>>

\* return self._extract_json(raw_content)
extract_json ==
    /\ pc = "content"
    /\ extracted' = _extract_json(raw)
    /\ pc' = "extracted"
    /\ UNCHANGED <<raw, original, main_vars>>

NextExtract ==
    \/ content_arrives
    \/ content_embeds
    \/ extract_json

SpecExtract == Init /\ [][NextExtract]_vars

\* ================================================================== claims
\* a result that meets the Analyzer Verdict schema: verdict in the enum and
\* confidence in [0,1]
WellFormed(d) ==
    /\ d # None
    /\ "verdict" \in DOMAIN d /\ d.verdict \in Verdicts
    /\ "confidence" \in DOMAIN d /\ d.confidence \in 0..100

\* the score the specification gives a verdict, in tenths
ScoreOfVerdict(v) == IF v = "phishing" THEN 10 ELSE IF v = "unsure" THEN 5 ELSE 0

\* analyze_email has returned a Unified Verdict
Merged == pc = "returned" /\ entry = "analyze_email"

\* C1: when merge is given a text result and a present URL result, both with a
\* verdict of the enum and a confidence in [0,1], combined_score is
\* 0.6 * text_score * text_confidence + 0.4 * url_score * url_confidence,
\* combined_confidence is 0.6 * text_confidence + 0.4 * url_confidence and
\* agents_used.url is true; text legitimate 0.8 with URL phishing 0.9 gives
\* score 0.36 and final verdict unsure.
C1_WeightedMerge ==
    (Merged /\ WellFormed(returned.text) /\ WellFormed(returned.url)) =>
        /\ locals.combined_score =
               6 * ScoreOfVerdict(returned.text.verdict) * returned.text.confidence
               + 4 * ScoreOfVerdict(returned.url.verdict) * returned.url.confidence
        /\ locals.combined_confidence =
               6 * returned.text.confidence + 4 * returned.url.confidence
        /\ unified.agents_used.url = TRUE
        /\ (/\ returned.text.verdict = "legitimate" /\ returned.text.confidence = 80
            /\ returned.url.verdict = "phishing" /\ returned.url.confidence = 90)
           => (locals.combined_score = 3600 /\ unified.verdict = "unsure")

C1_Witness ==
    /\ Merged
    /\ WellFormed(returned.text) /\ WellFormed(returned.url)
    /\ returned.text.verdict = "legitimate" /\ returned.text.confidence = 80
    /\ returned.url.verdict = "phishing" /\ returned.url.confidence = 90
    /\ unified.verdict = "unsure"

\* C2: when merge is given no URL result, combined_score is
\* text_score * text_confidence, combined_confidence is text_confidence and
\* agents_used.url is false; text phishing at 0.9 gives final verdict phishing.
C2_TextOnlyMerge ==
    (Merged /\ WellFormed(returned.text) /\ url_result = None) =>
        /\ locals.combined_score * 1000 =
               ScoreOfVerdict(returned.text.verdict) * returned.text.confidence * ScoreUnit
        /\ locals.combined_confidence * 100 = returned.text.confidence * ConfUnit
        /\ unified.confidence = returned.text.confidence
        /\ unified.agents_used.url = FALSE
        /\ (returned.text.verdict = "phishing" /\ returned.text.confidence = 90)
           => unified.verdict = "phishing"

C2_Witness ==
    /\ Merged /\ url_result = None /\ urls = <<>>
    /\ WellFormed(returned.text)
    /\ returned.text.verdict = "phishing" /\ returned.text.confidence = 90
    /\ unified.verdict = "phishing" /\ unified.agents_used.url = FALSE

\* C3: the final verdict follows the unrounded combined score alone:
\* phishing exactly when score >= 0.7, legitimate exactly when score <= 0.3,
\* unsure exactly when strictly between; both analyzers unsure at 0.5 give
\* score 0.25 and verdict legitimate.
C3_ThresholdOnUnroundedScore ==
    Merged =>
        /\ (unified.verdict = "phishing") <=> (locals.combined_score * 10 >= 7 * ScoreUnit)
        /\ (unified.verdict = "legitimate") <=> (locals.combined_score * 10 <= 3 * ScoreUnit)
        /\ (unified.verdict = "unsure") <=>
               (/\ locals.combined_score * 10 > 3 * ScoreUnit
                /\ locals.combined_score * 10 < 7 * ScoreUnit)
        /\ (/\ WellFormed(returned.text) /\ WellFormed(returned.url)
            /\ returned.text.verdict = "unsure" /\ returned.text.confidence = 50
            /\ returned.url.verdict = "unsure" /\ returned.url.confidence = 50)
           => (locals.combined_score = 2500 /\ unified.verdict = "legitimate")

\* a score of 0.696, which rounds to 0.70, still gives unsure
C3_Witness ==
    /\ Merged
    /\ locals.combined_score = 6960
    /\ unified.verdict = "unsure"
    /\ unified.confidence = 70

\* a verdict value outside the enum
OutsideEnum(d) == d # None /\ "verdict" \in DOMAIN d /\ d.verdict \notin Verdicts

\* C4: an analysis in which either analyzer's object carries a verdict
\* outside {phishing, legitimate, unsure} never returns a Unified Verdict.
C4_BadVerdictRejected ==
    ~(Merged /\ unified # None /\ (OutsideEnum(returned.text) \/ OutsideEnum(returned.url)))

\* an object without a verdict, or with a confidence outside [0,1]
FailsSchema(d) ==
    /\ d # None
    /\ \/ "verdict" \notin DOMAIN d
       \/ ("confidence" \in DOMAIN d /\ d.confidence \notin 0..100)

\* C5: an analysis in which either analyzer's object has no verdict or a
\* confidence outside [0,1] never returns a Unified Verdict.
C5_SchemaFailureRejected ==
    ~(Merged /\ unified # None /\ (FailsSchema(returned.text) \/ FailsSchema(returned.url)))

Failures == BackendUnavailable \cup MalformedOutput

\* C6: once the Text Analyzer has failed, analyze_email has ended with that
\* failure: no Unified Verdict, no URL result, whatever the URL list.
C6_TextFailureAborts ==
    (entry = "analyze_email" /\ returned.text = None /\ pc \notin {"text_agent", "text_wait"})
        => (/\ pc = "raised"
            /\ error \in Failures
            /\ unified = None
            /\ url_result = None)

C6_Witness ==
    /\ entry = "analyze_email" /\ pc = "raised"
    /\ returned.text = None
    /\ urls # <<>>
    /\ error \in MalformedOutput

BracesInOrder(r) == \E i, j \in DOMAIN r : i < j /\ r[i] = "{" /\ r[j] = "}"

\* C8: on a raw text with no '{', or no '}', or whose last '}' is not after
\* its first '{', the extractor raises the ValueError "No JSON object found
\* in model output" and returns no object.
C8_MissingBracesMalformed ==
    (pc = "extracted" /\ ~BracesInOrder(raw)) =>
        (/\ extracted.exc = "ValueError"
         /\ extracted.exc \in MalformedOutput
         /\ extracted.value = None)

\* both braces present, the closing one first
C8_Witness ==
    /\ pc = "extracted"
    /\ \E i, j \in DOMAIN raw : i < j /\ raw[i] = "}" /\ raw[j] = "{"
    /\ ~BracesInOrder(raw)
    /\ extracted.exc = "ValueError"

\* C9: an object serialized and embedded between brace-free prose is
\* extracted as an object equal to the original.
C9_RoundTrip ==
    (pc = "extracted" /\ original # None) =>
        (/\ extracted.exc = ""
         /\ extracted.value # None
         /\ PyEq(extracted.value, original))

\* a nested object with a brace in a key, prose on both sides
C9_Witness ==
    /\ pc = "extracted" /\ original # None
    /\ raw[1] # "{" /\ raw[Len(raw)] # "}"
    /\ \E i \in DOMAIN original.m :
           original.m[i].k = <<"}">> /\ original.m[i].v.t = "obj"
    /\ extracted.exc = ""
    /\ PyEq(extracted.value, original)

\* C10: when the span from the first '{' to the last '}' is not valid JSON,
\* the extractor raises an error of the Malformed Output kind and that error
\* carries the complete raw text.
C10_ParseErrorCarriesRaw ==
    (pc = "extracted" /\ BracesInOrder(raw) /\ extracted.exc # "") =>
        (extracted.exc \in MalformedOutput /\ extracted.doc = raw)

\* C11: two merges in succession on the same text result and URL result
\* return Unified Verdicts of identical content, field by field.
C11_MergeDeterministic ==
    pc = "returned_again" => yielded[1] = yielded[2]

\* some backend request was made for the URL view
UrlAnalyzerRan == \E i \in DOMAIN requests : requests[i].agent = "url"

\* C12: in every Unified Verdict agents_used.text is true and agents_used.url
\* is true exactly when the URL Analyzer ran.
C12_AgentsUsedMatchesRun ==
    Merged => (unified.agents_used.text /\ (unified.agents_used.url <=> UrlAnalyzerRan))

\* C13: every Unified Verdict has a verdict of the enum and a confidence in
\* [0,1] (held in whole hundredths).
C13_VerdictAndConfidenceInRange ==
    Merged => (unified.verdict \in Verdicts /\ unified.confidence \in 0..100)

\* the tags the two analyzers reported
ReportedTags ==
    Range(Get(returned.text, "phishing_indicators", <<>>))
    \cup UNION {Range(Get(d, "indicators", <<>>)) :
                   d \in Range(Get(returned.url, "url_details", <<>>))}

\* C14: the Unified Verdict's phishing_indicators holds exactly the tags of
\* the text result's phishing_indicators and of the indicators of the URL
\* result's per-URL details, each once.
C14_IndicatorUnion ==
    Merged =>
        /\ Range(unified.phishing_indicators) = ReportedTags
        /\ Len(unified.phishing_indicators) = Cardinality(ReportedTags)
        /\ url_result = None =>
               Range(unified.phishing_indicators)
                   = Range(Get(returned.text, "phishing_indicators", <<>>))

\* a tag reported by both analyzers, another by the URL analyzer alone
C14_Witness ==
    /\ Merged
    /\ Get(returned.text, "phishing_indicators", <<>>) = <<"url_shortener", "url_shortener">>
    /\ \E d \in Range(Get(returned.url, "url_details", <<>>)) :
           Get(d, "indicators", <<>>) = <<"credential_harvesting", "url_shortener">>
    /\ Len(unified.phishing_indicators) = 2

\* C15: URLAgent.analyze on an empty or absent URL list makes exactly one
\* backend request, whose user input carries "(no URLs provided)", and
\* returns the object extracted from the answer.
C15_EmptyUrlListStillAsksBackend ==
    (entry = "run_url_agent" /\ urls = <<>> /\ pc \in {"url_wait", "returned", "raised"}) =>
        /\ Len(requests) = 1
        /\ requests[1].agent = "url"
        /\ requests[1].user = <<"URLs to analyze:\n", "(no URLs provided)">>
        /\ pc = "returned" =>
               (/\ Len(replies) = 1
                /\ replies[1].kind = "json"
                /\ url_result = replies[1].obj)

C15_Witness ==
    /\ entry = "run_url_agent" /\ urls = <<>> /\ pc = "returned"
    /\ Len(requests) = 1
    /\ "(no URLs provided)" \in Range(requests[1].user)
    /\ "urls_analyzed" \in DOMAIN url_result /\ url_result.urls_analyzed = 0

\* C16: in analyze_email the URL request is sent only after the text request
\* has been answered, and merge runs only once every request made has been
\* answered: one request without URLs, two with.
C16_SequentialThenMerge ==
    entry = "analyze_email" =>
        /\ \A i \in DOMAIN requests :
               requests[i].agent = "url" =>
                   (/\ i = 2
                    /\ requests[1].agent = "text"
                    /\ Len(replies) >= 1)
        /\ pc \in {"merge", "returned", "returned_again"} =>
               (/\ Len(replies) = Len(requests)
                /\ Len(requests) = IF urls # <<>> THEN 2 ELSE 1
                /\ \A i \in DOMAIN replies : replies[i].kind = "json")

C16_Witness ==
    /\ entry = "analyze_email" /\ pc = "merge"
    /\ Len(requests) = 2 /\ Len(replies) = 2
    /\ requests[1].agent = "text" /\ requests[2].agent = "url"

\* C17: an analyze call makes one backend request; when it fails nothing
\* more is requested and the failure that leaves the call is the one the
\* round trip ended with.
C17_OneRequestNoRetry ==
    /\ \A a \in {"text", "url"} :
           Cardinality({i \in DOMAIN requests : requests[i].agent = a}) <= 1
    /\ Len(replies) <= Len(requests)
    /\ pc = "raised" =>
           (/\ Len(replies) = Len(requests)
            /\ LET last == replies[Len(replies)]
               IN  /\ last.kind # "json"
                   /\ last.kind \in BackendUnavailable => error = last.kind
                   /\ last.kind \in {"no_json", "bad_json"} => error \in MalformedOutput)

C17_Witness ==
    /\ entry = "run_url_agent" /\ pc = "raised"
    /\ Len(requests) = 1 /\ Len(replies) = 1
    /\ replies[1].kind = "HTTPError" /\ error = "HTTPError"

\* C18: after merge has returned, the text result and the URL result are
\* what the analyzers returned, and so is the embedded text_agent_result.
C18_MergeLeavesInputsUnchanged ==
    Merged =>
        (/\ text_result = returned.text
         /\ url_result = returned.url
         /\ unified.text_agent_result = returned.text)

\* C19: once the Text Analyzer's call has failed in analyze_email, no
\* request for the URL view is ever made.
C19_NoUrlCallAfterTextFailure ==
    (entry = "analyze_email" /\ Len(replies) >= 1 /\ replies[1].kind # "json") =>
        (~UrlAnalyzerRan /\ Len(requests) = 1 /\ returned.url = None)

C19_Witness ==
    /\ entry = "analyze_email" /\ pc = "raised"
    /\ Len(urls) = MaxUrls
    /\ Len(replies) = 1 /\ replies[1].kind = "ConnectionError"
    /\ ~UrlAnalyzerRan

\* C20: every wait for the backend ends, and so does every analyze_email.
C20_CallsComplete ==
    /\ (pc \in {"text_wait", "url_wait"}) ~> (pc \notin {"text_wait", "url_wait"})
    /\ (entry = "analyze_email") ~> (pc \in {"returned", "returned_again", "raised"})

====
